---------------------------- MODULE Spec2Model ----------------------------
(***************************************************************************)
(* Model of YNAB.py: the conversion pipeline that parses uploaded bank     *)
(* exports, maps them to the YNAB columns, merges and sorts them, shows a  *)
(* summary dashboard and exports the rows that were not marked for         *)
(* removal.                                                                *)
(*                                                                         *)
(* Representation of values                                                *)
(*   amounts         integers counting thousandths of a SEK (1504 = 1.504) *)
(*   amount cell     [k, n]: k = "float" (n thousandths), "nan" (missing   *)
(*                   value), "str" (text such as "abc", or the "" default) *)
(*   date cell       [k, y, m, d]: k = "text" (a string "y-m-d" read from  *)
(*                   the file or written by strftime), "empty" (the ""     *)
(*                   default), "nan" (missing value), "ts" (a Timestamp),  *)
(*                   "NaT"                                                  *)
(*   Inflow/Outflow  [k, n]: k = "float" (n thousandths), "str" (the text  *)
(*                   "w.ff" of n hundredths), "empty" (the text "")        *)
(*   Payee, Memo     strings; "NaN" stands for a missing value             *)
(***************************************************************************)
EXTENDS Integers, Sequences, FiniteSets, TLC

\* ------------------------------------------------------------------ bounds
MaxFiles == 2      \* the most files of a batch
MaxRows == 3       \* the most rows the files of a batch hold together
MaxMarked == 1     \* the most rows ticked in the editor

\* --------------------------------------------------------------- constants
TopN == 5

None == "None"
NaN == "NaN"

Fields == {"Date", "Payee", "Amount"}

MappingOrder == <<"Date", "Payee", "Memo", "Amount">>

COLUMN_MAPPINGS ==
  [ft \in {"Swedbank (csv)", "Coop Mastercard (xls & xlsx)"} |->
     IF ft = "Swedbank (csv)"
       THEN [Date |-> "Transaktionsdag", Payee |-> "Beskrivning",
             Memo |-> None, Amount |-> "Belopp"]
       ELSE [Date |-> "Datum", Payee |-> "Detaljer",
             Memo |-> None, Amount |-> "Fakturabelopp"]]

FileTypes == DOMAIN COLUMN_MAPPINGS

\* `if source_col:` a mapping value of None (or "") is falsy
Truthy(s) == s \notin {None, ""}

\* ------------------------------------------------------------------- cells
Float(n) == [k |-> "float", n |-> n]
NanCell == [k |-> "nan", n |-> 0]
StrCell == [k |-> "str", n |-> 0]
EmptyStr == [k |-> "empty", n |-> 0]

DateText(y, m, d) == [k |-> "text", y |-> y, m |-> m, d |-> d]
DateEmpty == [k |-> "empty", y |-> 0, m |-> 0, d |-> 0]
DateNan == [k |-> "nan", y |-> 0, m |-> 0, d |-> 0]
NaT == [k |-> "NaT", y |-> 0, m |-> 0, d |-> 0]

Min(a, b) == IF a < b THEN a ELSE b

\* ----------------------------------------------------------- permutations
RECURSIVE Perms(_)
Perms(S) ==
  IF S = {} THEN {<<>>}
  ELSE UNION {{<<x>> \o p : p \in Perms(S \ {x})} : x \in S}

\* The results an unstable ascending sort of the elements of S by key can
\* give: keys non-decreasing, elements of equal key in any order.
RECURSIVE OrdersBy(_, _)
OrdersBy(S, key) ==
  IF S = {} THEN {<<>>}
  ELSE LET m == CHOOSE v \in {key[x] : x \in S} :
                  \A x \in S : v <= key[x]
           G == {x \in S : key[x] = m}
       IN  {p \o q : p \in Perms(G), q \in OrdersBy(S \ G, key)}

RECURSIVE SeqSum(_)
SeqSum(s) == IF s = <<>> THEN 0 ELSE Head(s) + SeqSum(Tail(s))

\* the increasing enumeration of a set of integers
RECURSIVE Ascending(_)
Ascending(S) ==
  IF S = {} THEN <<>>
  ELSE LET m == CHOOSE x \in S : \A y \in S : x <= y
       IN  <<m>> \o Ascending(S \ {m})

RECURSIVE Flatten(_)
Flatten(ss) == IF ss = <<>> THEN <<>> ELSE Head(ss) \o Flatten(Tail(ss))

\* --------------------------------------------------- parse_transaction_file
\* An uploaded file either cannot be read (pd.read_csv / pd.read_excel
\* raise) or holds a table: n rows and, per column name, the cells.
NoColumns == [c \in {} |-> <<>>]

Unreadable == [readable |-> FALSE, n |-> 0, col |-> NoColumns]

\* ok: a DataFrame is returned; otherwise None is returned after st.error
parse_transaction_file(file, ft) ==
  IF ft \in FileTypes /\ file.readable
    THEN [ok |-> TRUE, df |-> [n |-> file.n, col |-> file.col], errors |-> <<>>]
    ELSE [ok |-> FALSE, df |-> [n |-> 0, col |-> NoColumns],
          errors |-> <<[kind |-> "error",
                        what |-> IF ft \in FileTypes THEN "Error reading file"
                                 ELSE "Unsupported file type!"]>>]

\* ------------------------------------------------------------------- round
\* round(x, 2) on thousandths: nearest hundredth, a tie to the even
\* hundredth (Python rounds the exact binary value; a decimal tie is exact
\* in binary only at multiples of 0.125, where half-even applies).
Round2(x) ==
  LET q == x \div 10
      r == x % 10
  IN  IF r < 5 THEN 10 * q
      ELSE IF r > 5 THEN 10 * (q + 1)
      ELSE IF q % 2 = 0 THEN 10 * q ELSE 10 * (q + 1)

\* lambda x: round(x, 2) if x > 0 else 0       (x a float or a NaN)
InflowOf(x) == IF x.k = "float" /\ x.n > 0 THEN Float(Round2(x.n)) ELSE Float(0)

\* variant: the sign is not flipped, round(x, 2) if x < 0 else 0
OutflowOfSigned(x) == IF x.k = "float" /\ x.n < 0 THEN Float(-Round2(-x.n)) ELSE Float(0)

\* lambda x: round(-x, 2) if x < 0 else 0
OutflowOf(x) == IF x.k = "float" /\ x.n < 0 THEN Float(Round2(-x.n)) ELSE Float(0)

\* ---------------------------------------------------------- apply_mappings
\* position in MappingOrder of the first column copied from df: that
\* assignment gives the new frame its index; 0 when no column is copied
\* or the table has no rows
FirstCopied(df, mappings) ==
  LET P == {p \in 1..Len(MappingOrder) :
              /\ Truthy(mappings[MappingOrder[p]])
              /\ mappings[MappingOrder[p]] \in DOMAIN df.col
              /\ df.n > 0}
  IN  IF P = {} THEN 0 ELSE CHOOSE p \in P : \A q \in P : p <= q

Position(f) == CHOOSE p \in 1..Len(MappingOrder) : MappingOrder[p] = f

\* the cell of column f in row r of the mapped frame: the source cell when
\* the column exists; otherwise the scalar "" that was assigned, which is
\* broadcast when the frame already has its index and becomes a missing
\* value when the index arrives later (the empty column is reindexed)
MappedCell(df, mappings, f, r, empty, nan) ==
  IF Truthy(mappings[f]) /\ mappings[f] \in DOMAIN df.col
    THEN df.col[mappings[f]][r]
    ELSE IF Position(f) > FirstCopied(df, mappings) THEN empty ELSE nan

\* st.warning for every mapped column the table lacks
MappingWarnings(df, mappings) ==
  LET Missing(p) == /\ Truthy(mappings[MappingOrder[p]])
                    /\ mappings[MappingOrder[p]] \notin DOMAIN df.col
      ps == Ascending({p \in 1..Len(MappingOrder) : Missing(p)})
  IN  [j \in 1..Len(ps) |->
         [kind |-> "warning", what |-> mappings[MappingOrder[ps[j]]]]]

apply_mappings(df, mappings) ==
  LET n == IF FirstCopied(df, mappings) = 0 THEN 0 ELSE df.n
      Amount(r) == MappedCell(df, mappings, "Amount", r, StrCell, NanCell)
      \* x > 0 with x a str raises TypeError
      raises == \E r \in 1..n : Amount(r).k = "str"
  IN  [raised   |-> raises,
       warnings |-> MappingWarnings(df, mappings),
       rows     |-> IF raises THEN <<>>
                    ELSE [r \in 1..n |->
                           [Date    |-> MappedCell(df, mappings, "Date", r, DateEmpty, DateNan),
                            Payee   |-> MappedCell(df, mappings, "Payee", r, "", NaN),
                            Memo    |-> MappedCell(df, mappings, "Memo", r, "", NaN),
                            Inflow  |-> InflowOf(Amount(r)),
                            Outflow |-> OutflowOf(Amount(r))]]]

\* ------------------------------------------------------------- aggregators
\* the sum of a column: of floats a float; of texts their concatenation
ColumnSum(df, c) ==
  IF \A r \in 1..Len(df) : df[r][c].k = "float"
    THEN Float(SeqSum([r \in 1..Len(df) |-> df[r][c].n]))
    ELSE StrCell

\* variant: both totals read the Inflow column
calculate_kpis_same_column(df) ==
  [total_inflow |-> ColumnSum(df, "Inflow"), total_outflow |-> ColumnSum(df, "Inflow")]

calculate_kpis(df) ==
  [total_inflow |-> ColumnSum(df, "Inflow"), total_outflow |-> ColumnSum(df, "Outflow")]

\* df['Outflow'] > 0 raises TypeError when a cell is a str
OutflowTestRaises(df) == \E r \in 1..Len(df) : df[r].Outflow.k # "float"

\* df[df['Outflow'] > 0] as the set of its row positions
OutflowRows(df) == {r \in 1..Len(df) : df[r].Outflow.k = "float" /\ df[r].Outflow.n > 0}

\* the payees value_counts / groupby keep: missing values are dropped
OutflowPayees(df) == {df[r].Payee : r \in OutflowRows(df)} \ {NaN}

PayeeCount(df, p) == Cardinality({r \in OutflowRows(df) : df[r].Payee = p})

PayeeTotal(df, p) ==
  SeqSum([r \in 1..Len(df) |->
            IF r \in OutflowRows(df) /\ df[r].Payee = p THEN df[r].Outflow.n ELSE 0])

\* .head(5)
HeadN(s) == SubSeq(s, 1, Min(TopN, Len(s)))

\* value_counts().head(5): descending by count, quicksort among equal counts
top_payees_count(df) ==
  {HeadN([j \in 1..Len(o) |-> [Payee |-> o[j], v |-> PayeeCount(df, o[j])]]) :
     o \in OrdersBy(OutflowPayees(df), [p \in OutflowPayees(df) |-> -PayeeCount(df, p)])}

\* groupby('Payee')['Outflow'].sum().sort_values(ascending=False), rounded, .head(5)
top_payees_amount(df) ==
  {HeadN([j \in 1..Len(o) |-> [Payee |-> o[j], v |-> Round2(PayeeTotal(df, o[j]))]]) :
     o \in OrdersBy(OutflowPayees(df), [p \in OutflowPayees(df) |-> -PayeeTotal(df, p)])}

\* the mean as the fraction num/den; 0 when there is no outflow
average_outflow(df) ==
  IF OutflowRows(df) = {} THEN [num |-> 0, den |-> 1]
  ELSE [num |-> SeqSum([r \in 1..Len(df) |->
                          IF r \in OutflowRows(df) THEN df[r].Outflow.n ELSE 0]),
        den |-> Cardinality(OutflowRows(df))]

\* The reports the four aggregators can produce from df; none when an
\* aggregator raises.
Reports(df) ==
  IF OutflowTestRaises(df) THEN {}
  ELSE {[total_inflow  |-> calculate_kpis(df).total_inflow,
         total_outflow |-> calculate_kpis(df).total_outflow,
         avg_outflow   |-> average_outflow(df),
         top_count     |-> tc,
         top_amount    |-> ta] :
          tc \in top_payees_count(df), ta \in top_payees_amount(df)}

NoReport ==
  [total_inflow |-> Float(0), total_outflow |-> Float(0),
   avg_outflow |-> [num |-> 0, den |-> 1], top_count |-> <<>>, top_amount |-> <<>>]

\* ------------------------------------------------------------------- dates
DaysIn(y, m) ==
  IF m \in {4, 6, 9, 11} THEN 30
  ELSE IF m = 2 THEN (IF y % 4 = 0 /\ (y % 100 # 0 \/ y % 400 = 0) THEN 29 ELSE 28)
  ELSE 31

\* pd.to_datetime(errors='coerce') of one cell
to_datetime(c) ==
  IF c.k = "ts" THEN c
  ELSE IF c.k = "text" /\ c.m \in 1..12 /\ c.d \in 1..DaysIn(c.y, c.m)
    THEN [k |-> "ts", y |-> c.y, m |-> c.m, d |-> c.d]
    ELSE NaT

\* the order of Timestamps
Ordinal(t) == (t.y * 12 + (t.m - 1)) * 31 + t.d

\* strftime('%Y-%m-%d') on a datetime column: NaT becomes a missing value
strftime(t) == IF t.k = "ts" THEN DateText(t.y, t.m, t.d) ELSE DateNan

\* ------------------------------------------------------------------- merge
\* pd.concat(all_transactions, ignore_index=True), then to_datetime
Concat(tables) ==
  LET rows == Flatten(tables)
  IN  [r \in 1..Len(rows) |-> [rows[r] EXCEPT !.Date = to_datetime(rows[r].Date)]]

\* sort_values(by='Date') with the default kind 'quicksort', na_position
\* 'last': the dated rows by ascending Date, then the NaT rows in their
\* original order.  quicksort promises nothing about rows of equal Date
\* (numpy keeps their order only below its insertion-sort cutoff), so any
\* order of them is a possible result.  reset_index drops the old index.
sort_values(df) ==
  LET dated == {r \in 1..Len(df) : df[r].Date.k = "ts"}
      nat == Ascending({r \in 1..Len(df) : df[r].Date.k # "ts"})
  IN  {[j \in 1..Len(df) |-> df[(o \o nat)[j]]] :
         o \in OrdersBy(dated, [r \in dated |-> Ordinal(df[r].Date)])}

\* ------------------------------------------------------------------ editor
\* f"{x:.2f}", or "" for 0: the text of n thousandths to two decimals
Format2f(x) ==
  IF x.n = 0 THEN EmptyStr ELSE [k |-> "str", n |-> Round2(x.n) \div 10]

PrepareRow(row) ==
  [Date |-> row.Date, Payee |-> row.Payee, Memo |-> row.Memo,
   Inflow |-> Format2f(row.Inflow), Outflow |-> Format2f(row.Outflow),
   Remove |-> FALSE]

\* variant: the filter keeps the ticked rows, edited_df['Remove'] == True
FinalOfTicked(edited) ==
  LET keep == Ascending({r \in 1..Len(edited) : edited[r].Remove = TRUE})
  IN  [j \in 1..Len(keep) |->
         [Date |-> strftime(edited[keep[j]].Date), Payee |-> edited[keep[j]].Payee,
          Memo |-> edited[keep[j]].Memo, Inflow |-> edited[keep[j]].Inflow,
          Outflow |-> edited[keep[j]].Outflow]]

\* edited_df[edited_df['Remove'] == False].drop(columns=['Remove']) with
\* the Date column formatted
FinalOf(edited) ==
  LET keep == Ascending({r \in 1..Len(edited) : edited[r].Remove = FALSE})
  IN  [j \in 1..Len(keep) |->
         [Date |-> strftime(edited[keep[j]].Date), Payee |-> edited[keep[j]].Payee,
          Memo |-> edited[keep[j]].Memo, Inflow |-> edited[keep[j]].Inflow,
          Outflow |-> edited[keep[j]].Outflow]]

\* ------------------------------------------------------------------- state
VARIABLES
  file_type,         \* the selected file type
  uploaded_files,    \* the uploaded batch
  i,                 \* position of the for loop in uploaded_files
  all_transactions,  \* the mapped tables collected so far
  messages,          \* what st.error / st.warning have shown
  combined_df,       \* the merged dataset
  report,            \* the dashboard values
  date_range,        \* the dates of the Date Range metric
  edited_df,         \* what the data editor returned
  final_df,          \* the exported rows
  transaction_count, \* the row count in the file name
  pc                 \* position of the script

vars == <<file_type, uploaded_files, i, all_transactions, messages, combined_df,
          report, date_range, edited_df, final_df, transaction_count, pc>>

\* lines 117-123: one iteration of the loop over uploaded_files
ProcessFile ==
  /\ pc = "loop"
  /\ i <= Len(uploaded_files)
  /\ LET parsed == parse_transaction_file(uploaded_files[i], file_type)
         mapped == apply_mappings(parsed.df, COLUMN_MAPPINGS[file_type])
     IN  IF ~parsed.ok
           THEN /\ messages' = messages \o parsed.errors
                /\ i' = i + 1
                /\ UNCHANGED <<all_transactions, pc>>
           ELSE IF mapped.raised
             THEN /\ messages' = messages \o mapped.warnings
                  /\ pc' = "TypeError"
                  /\ UNCHANGED <<all_transactions, i>>
             ELSE /\ messages' = messages \o mapped.warnings
                  /\ all_transactions' = Append(all_transactions, mapped.rows)
                  /\ i' = i + 1
                  /\ UNCHANGED pc
  /\ UNCHANGED <<file_type, uploaded_files, combined_df, report, date_range,
                 edited_df, final_df, transaction_count>>

\* lines 113, 125-137: after the loop, concat, to_datetime, sort, reindex
Merge ==
  /\ pc = "loop"
  /\ i > Len(uploaded_files)
  /\ IF all_transactions = <<>>
       THEN pc' = "end" /\ UNCHANGED combined_df
       ELSE /\ combined_df' \in sort_values(Concat(all_transactions))
            /\ pc' = "dashboard"
  /\ UNCHANGED <<file_type, uploaded_files, i, all_transactions, messages,
                 report, date_range, edited_df, final_df, transaction_count>>

\* lines 139-172
Dashboard ==
  /\ pc = "dashboard"
  /\ report' \in Reports(combined_df)
  /\ pc' = "daterange"
  /\ UNCHANGED <<file_type, uploaded_files, i, all_transactions, messages,
                 combined_df, date_range, edited_df, final_df, transaction_count>>

\* lines 174-176: min() and max() skip NaT and are NaT when nothing is
\* left; NaT.strftime raises ValueError
DateRange ==
  /\ pc = "daterange"
  /\ LET dated == {r \in 1..Len(combined_df) : combined_df[r].Date.k = "ts"}
         lo == CHOOSE r \in dated : \A q \in dated :
                 Ordinal(combined_df[r].Date) <= Ordinal(combined_df[q].Date)
         hi == CHOOSE r \in dated : \A q \in dated :
                 Ordinal(combined_df[q].Date) <= Ordinal(combined_df[r].Date)
     IN  IF dated = {}
           THEN pc' = "ValueError" /\ UNCHANGED date_range
           ELSE /\ date_range' = <<strftime(combined_df[lo].Date),
                                   strftime(combined_df[hi].Date)>>
                /\ pc' = "prepare"
  /\ UNCHANGED <<file_type, uploaded_files, i, all_transactions, messages,
                 combined_df, report, edited_df, final_df, transaction_count>>

\* lines 181-186
PrepareEditor ==
  /\ pc = "prepare"
  /\ combined_df' = [r \in 1..Len(combined_df) |-> PrepareRow(combined_df[r])]
  /\ pc' = "editor"
  /\ UNCHANGED <<file_type, uploaded_files, i, all_transactions, messages,
                 report, date_range, edited_df, final_df, transaction_count>>

\* lines 199-217: the editor returns the frame with the rows the user
\* ticked, the rest is filtered, formatted and counted
Export ==
  /\ pc = "editor"
  /\ \E marked \in SUBSET (1..Len(combined_df)) :
       /\ Cardinality(marked) <= MaxMarked
       /\ edited_df' = [r \in 1..Len(combined_df) |->
                          [combined_df[r] EXCEPT !.Remove = (r \in marked)]]
  /\ final_df' = FinalOf(edited_df')
  /\ transaction_count' = Len(final_df')
  /\ pc' = "done"
  /\ UNCHANGED <<file_type, uploaded_files, i, all_transactions, messages,
                 combined_df, report, date_range>>

Next ==
  \/ ProcessFile
  \/ Merge
  \/ Dashboard
  \/ DateRange
  \/ PrepareEditor
  \/ Export

\* ------------------------------------------------------------------ inputs
SeqsUpTo(S, n) == UNION {[1..k -> S] : k \in 0..n}

FieldOf(ft, c) == CHOOSE f \in Fields : COLUMN_MAPPINGS[ft][f] = c

\* the table of file type ft holding the rows rs in the columns of cs
TableOf(ft, rs, cs) ==
  [readable |-> TRUE, n |-> Len(rs),
   col |-> [c \in {COLUMN_MAPPINGS[ft][f] : f \in cs} |->
              [r \in 1..Len(rs) |-> rs[r][FieldOf(ft, c)]]]]

\* the shapes of a batch: per file the number of its rows, -1 for a file
\* that cannot be read
Rows(shape) == SeqSum([k \in 1..Len(shape) |-> IF shape[k] < 0 THEN 0 ELSE shape[k]])

Shapes == {shape \in SeqsUpTo(-1..MaxRows, MaxFiles) : Rows(shape) <= MaxRows}

\* the batch of that shape holding the rows rs, file k with the columns cs[k]
BatchOf(ft, shape, rs, cs) ==
  [k \in 1..Len(shape) |->
     IF shape[k] < 0 THEN Unreadable
     ELSE TableOf(ft, SubSeq(rs, Rows(SubSeq(shape, 1, k - 1)) + 1,
                                 Rows(SubSeq(shape, 1, k))), cs[k])]

Row(date, payee, amount) == [Date |-> date, Payee |-> payee, Amount |-> amount]

InitWith(types, pool, colsets) ==
  /\ file_type \in types
  /\ \E shape \in Shapes :
       \E rs \in [1..Rows(shape) -> pool], cs \in [1..Len(shape) -> colsets] :
         uploaded_files = BatchOf(file_type, shape, rs, cs)
  /\ i = 1
  /\ all_transactions = <<>>
  /\ messages = <<>>
  /\ combined_df = <<>>
  /\ report = NoReport
  /\ date_range = <<>>
  /\ edited_df = <<>>
  /\ final_df = <<>>
  /\ transaction_count = 0
  /\ pc = "loop"

\* transactions of two payees on two days, one with a date that is no date
MergePool ==
  {Row(DateText(2024, 1, 5), "Shop1", Float(-10000)),
   Row(DateText(2024, 1, 3), "Shop2", Float(50000)),
   Row(DateText(2024, 1, 5), "Shop2", Float(-10000)),
   Row(DateText(2024, 13, 1), "Shop1", Float(-2500))}

\* one transaction per day, amounts of every sign and precision, a missing
\* and a non-numeric amount
AmountPool ==
  {Row(DateText(2024, 1, 1), "Shop1", Float(-1504)),
   Row(DateText(2024, 1, 2), "Shop1", Float(0)),
   Row(DateText(2024, 1, 3), "Shop1", Float(4)),
   Row(DateText(2024, 1, 4), "Shop1", Float(125)),
   Row(DateText(2024, 1, 5), "Shop1", NanCell),
   Row(DateText(2024, 1, 6), "Shop1", StrCell)}

ColumnPool ==
  {Row(DateText(2024, 1, 5), "Shop1", Float(-10000)),
   Row(DateText(2024, 1, 3), "Shop2", Float(50000))}

Init == InitWith({"Coop Mastercard (xls & xlsx)"}, MergePool, {Fields})

InitAmounts == InitWith({"Swedbank (csv)"}, AmountPool, {Fields})

InitColumns == InitWith(FileTypes, ColumnPool, SUBSET Fields)

Spec == Init /\ [][Next]_vars

SpecAmounts == InitAmounts /\ [][Next]_vars

SpecColumns == InitColumns /\ [][Next]_vars

\* ============================================================== properties
\* the files of the batch that can be read, in upload order
ReadableIdx == Ascending({k \in 1..Len(uploaded_files) : uploaded_files[k].readable})

\* the file the j-th mapped table comes from
Source(j) == uploaded_files[ReadableIdx[j]]

AmountColumn == COLUMN_MAPPINGS[file_type]["Amount"]

HasColumn(f, field) == COLUMN_MAPPINGS[file_type][field] \in DOMAIN f.col

\* the rows of the mapped tables: <<table, row>>
MappedPositions ==
  UNION {{<<j, r>> : r \in 1..Len(all_transactions[j])} : j \in 1..Len(all_transactions)}

\* the Amount cell the mapped row <<j, r>> was made from
SrcAmount(j, r) == Source(j).col[AmountColumn][r]

\* the script has shown the dashboard
Reported == pc \in {"daterange", "prepare", "editor", "done", "ValueError"}

\* no action is left to take
Terminal == pc \in {"end", "done", "TypeError", "ValueError"}

\* ----------------------------------------------------------------------- C1
\* C1 as stated: every row apply_mappings produces has Inflow >= 0 and
\* Outflow >= 0 and exactly one of the two is nonzero.
C1_ExactlyOneNonzero ==
  \A pos \in MappedPositions :
    LET row == all_transactions[pos[1]][pos[2]]
    IN  /\ row.Inflow.n >= 0
        /\ row.Outflow.n >= 0
        /\ (row.Inflow.n # 0) # (row.Outflow.n # 0)

\* C1 amended: every row apply_mappings produces has Inflow >= 0 and
\* Outflow >= 0 and at most one of the two nonzero; Inflow is nonzero only
\* for a positive Amount and Outflow only for a negative one; exactly one is
\* nonzero when the magnitude of Amount is at least 0.01, and both are zero
\* when Amount is zero or missing.
C1_AtMostOneNonzero ==
  \A pos \in MappedPositions :
    LET row == all_transactions[pos[1]][pos[2]]
        x == SrcAmount(pos[1], pos[2])
    IN  /\ row.Inflow.n >= 0
        /\ row.Outflow.n >= 0
        /\ ~(row.Inflow.n # 0 /\ row.Outflow.n # 0)
        /\ row.Inflow.n # 0 => x.k = "float" /\ x.n > 0
        /\ row.Outflow.n # 0 => x.k = "float" /\ x.n < 0
        /\ x.k = "float" /\ x.n >= 10 => row.Inflow.n # 0
        /\ x.k = "float" /\ x.n <= -10 => row.Outflow.n # 0
        /\ x.k = "nan" \/ x.n = 0 => row.Inflow.n = 0 /\ row.Outflow.n = 0

\* a zero Amount, a negative Amount and a positive Amount have been mapped
C1_Witness ==
  /\ \E pos \in MappedPositions :
       /\ SrcAmount(pos[1], pos[2]) = Float(0)
       /\ all_transactions[pos[1]][pos[2]].Inflow.n = 0
       /\ all_transactions[pos[1]][pos[2]].Outflow.n = 0
  /\ \E pos \in MappedPositions :
       /\ SrcAmount(pos[1], pos[2]).n < 0
       /\ all_transactions[pos[1]][pos[2]].Outflow.n > 0
  /\ \E pos \in MappedPositions :
       /\ SrcAmount(pos[1], pos[2]).n > 0
       /\ all_transactions[pos[1]][pos[2]].Inflow.n > 0

\* ----------------------------------------------------------------------- C2
\* the sum of the numeric Amounts the mapped rows of P were made from
RECURSIVE OriginalSum(_)
OriginalSum(P) ==
  IF P = {} THEN 0
  ELSE LET pos == CHOOSE q \in P : TRUE
           x == SrcAmount(pos[1], pos[2])
       IN  (IF x.k = "float" THEN x.n ELSE 0) + OriginalSum(P \ {pos})

\* the nearest hundredth of a signed amount
Hundredth(n) == IF n >= 0 THEN Round2(n) ELSE -Round2(-n)

\* the same sum with every Amount rounded to two decimals first
RECURSIVE RoundedSum(_)
RoundedSum(P) ==
  IF P = {} THEN 0
  ELSE LET pos == CHOOSE q \in P : TRUE
           x == SrcAmount(pos[1], pos[2])
       IN  (IF x.k = "float" THEN Hundredth(x.n) ELSE 0) + RoundedSum(P \ {pos})

\* C2 as stated: total_inflow - total_outflow of the dashboard equals the
\* sum of the original signed Amounts of the rows with a numeric Amount.
C2_Conservation ==
  Reported =>
    report.total_inflow.n - report.total_outflow.n
      = OriginalSum(MappedPositions)

\* C2 amended: total_inflow - total_outflow of the dashboard equals the sum
\* of the signed Amounts after each has been rounded to two decimals, rows
\* with a missing Amount counting as 0.
C2_ConservationRounded ==
  Reported =>
    /\ report.total_inflow.k = "float"
    /\ report.total_outflow.k = "float"
    /\ report.total_inflow.n - report.total_outflow.n
         = RoundedSum(MappedPositions)

\* the dashboard is shown for two files holding an inflow, an outflow and an
\* Amount with more than two decimals
C2_Witness ==
  /\ Reported
  /\ Len(all_transactions) = 2
  /\ report.total_inflow.n > 0
  /\ report.total_outflow.n > 0
  /\ \E pos \in MappedPositions :
       SrcAmount(pos[1], pos[2]).k = "float" /\ SrcAmount(pos[1], pos[2]).n % 10 # 0

\* ----------------------------------------------------------------------- C3
\* the stable ascending sort by Date: equal dates and NaT rows keep the
\* order they have in df
StableSort(df) ==
  LET dated == {r \in 1..Len(df) : df[r].Date.k = "ts"}
      nat == Ascending({r \in 1..Len(df) : df[r].Date.k # "ts"})
      o == CHOOSE q \in OrdersBy(dated, [r \in dated |-> Ordinal(df[r].Date)]) :
             \A a, b \in 1..Len(q) :
               a < b /\ Ordinal(df[q[a]].Date) = Ordinal(df[q[b]].Date) => q[a] < q[b]
  IN  [j \in 1..Len(df) |-> df[(o \o nat)[j]]]

\* the merged dataset still holds what the merge produced
Merged == pc \in {"dashboard", "daterange", "prepare", "ValueError"}

\* C3: in the merged dataset rows of equal Date, and rows without a Date,
\* are in the order of the concatenation of the files in upload order.
C3_MergeStable ==
  Merged => combined_df = StableSort(Concat(all_transactions))

\* ----------------------------------------------------------------------- C4
ErrorCount == Cardinality({m \in 1..Len(messages) : messages[m].kind = "error"})

WarningCount == Cardinality({m \in 1..Len(messages) : messages[m].kind = "warning"})

\* the files the loop has gone through
Looped == 1..Min(i - 1, Len(uploaded_files))

\* C4: a file that cannot be parsed gives exactly one diagnostic, every file
\* after it is still parsed and mapped, and the merged dataset holds the
\* rows of exactly the files that parsed.
C4_ParseErrorNeverAborts ==
  /\ ErrorCount = Cardinality({k \in Looped : ~uploaded_files[k].readable})
  /\ Terminal =>
       \A k \in 1..Len(uploaded_files) :
         ~uploaded_files[k].readable =>
           \A l \in (k + 1)..Len(uploaded_files) : l \in Looped
  /\ Merged =>
       /\ Len(all_transactions) = Len(ReadableIdx)
       /\ Len(combined_df) = SeqSum([j \in 1..Len(ReadableIdx) |-> Source(j).n])

\* ----------------------------------------------------------------------- C5
MissingColumns(f) == {field \in Fields : ~HasColumn(f, field)}

\* the readable files apply_mappings has been called on
Mapped ==
  {k \in 1..Len(uploaded_files) :
     /\ uploaded_files[k].readable
     /\ k \in Looped \/ (k = i /\ pc = "TypeError")}

\* C5: a table that lacks a mapped column, whichever it is, is mapped
\* without an exception, with one diagnostic per lacking column, with the
\* default in the field of every row and with as many rows as the table.
C5_MissingColumnNonFatal ==
  /\ pc # "TypeError"
  /\ WarningCount =
       SeqSum([k \in 1..Len(uploaded_files) |->
                 IF k \in Mapped THEN Cardinality(MissingColumns(uploaded_files[k])) ELSE 0])
  /\ \A j \in 1..Len(all_transactions) :
       /\ Len(all_transactions[j]) = Source(j).n
       /\ \A r \in 1..Len(all_transactions[j]) :
            LET row == all_transactions[j][r]
            IN  /\ "Date" \in MissingColumns(Source(j)) => row.Date.k \in {"empty", "nan"}
                /\ "Payee" \in MissingColumns(Source(j)) => row.Payee \in {"", NaN}
                /\ "Amount" \in MissingColumns(Source(j)) =>
                     row.Inflow.n = 0 /\ row.Outflow.n = 0

\* ----------------------------------------------------------------------- C6
\* C6: the merged dataset has the rows of all mapped tables, the dated rows
\* in non-decreasing order before every row without a Date, and a dataset
\* with rows that have no Date still gets through to the export.
C6_UnparseableDatesNonFatal ==
  Merged =>
    /\ Len(combined_df) = SeqSum([j \in 1..Len(all_transactions) |-> Len(all_transactions[j])])
    /\ \A a, b \in 1..Len(combined_df) :
         a < b =>
           /\ combined_df[a].Date.k # "ts" => combined_df[b].Date.k # "ts"
           /\ combined_df[a].Date.k = "ts" /\ combined_df[b].Date.k = "ts" =>
                Ordinal(combined_df[a].Date) <= Ordinal(combined_df[b].Date)
    /\ ~(pc = "ValueError" /\ \E r \in 1..Len(combined_df) : combined_df[r].Date.k # "ts")

\* ----------------------------------------------------------------------- C7
Unparseable(x) == x.k # "float"

\* C7: a row whose Amount is missing or not a number raises nothing, gets
\* Inflow 0 and Outflow 0, and a diagnostic is emitted for its file.
C7_UnparseableAmountNonFatal ==
  /\ ~(pc = "TypeError" /\
       \E r \in 1..uploaded_files[i].n : Unparseable(uploaded_files[i].col[AmountColumn][r]))
  /\ \A pos \in MappedPositions :
       Unparseable(SrcAmount(pos[1], pos[2])) =>
         /\ all_transactions[pos[1]][pos[2]].Inflow.n = 0
         /\ all_transactions[pos[1]][pos[2]].Outflow.n = 0
  /\ WarningCount >=
       Cardinality({j \in 1..Len(all_transactions) :
                      \E r \in 1..Len(all_transactions[j]) : Unparseable(SrcAmount(j, r))})

\* ----------------------------------------------------------------------- C8
\* the alphabetical position of the payee names of the inputs
NameRank(p) == CASE p = "" -> 0 [] p = NaN -> 1 [] p = "Shop1" -> 2 [] p = "Shop2" -> 3

\* entry a ranks before entry b: the larger value, then the smaller name
RanksBefore(a, b) == a.v > b.v \/ (a.v = b.v /\ NameRank(a.Payee) < NameRank(b.Payee))

\* the payees with an outflow row, with their value under val
Ranked(df, val) ==
  {[Payee |-> df[r].Payee, v |-> val[df[r].Payee]] :
     r \in {q \in 1..Len(df) : df[q].Outflow.n > 0}}

WellRanked(top, df, val) ==
  /\ Len(top) <= 5
  /\ \A j \in 1..Len(top) : top[j] \in Ranked(df, val)
  /\ \A a, b \in 1..Len(top) : a < b => RanksBefore(top[a], top[b])
  /\ \A e \in Ranked(df, val) :
       (\A j \in 1..Len(top) : top[j].Payee # e.Payee) =>
         \A j \in 1..Len(top) : RanksBefore(top[j], e)

\* the dataset is still the one the dashboard was computed from
Numeric == pc \in {"daterange", "prepare", "ValueError"}

\* C8: both top lists have at most 5 entries, hold only payees with an
\* outflow, are in descending order of count (of summed outflow) with equal
\* values in ascending order of payee name, and leave out no payee that
\* ranks before one they hold.
C8_TopPayeesRanked ==
  Numeric =>
    LET P == {combined_df[r].Payee : r \in 1..Len(combined_df)}
    IN  /\ WellRanked(report.top_count, combined_df,
                      [p \in P |-> PayeeCount(combined_df, p)])
        /\ WellRanked(report.top_amount, combined_df,
                      [p \in P |-> Round2(PayeeTotal(combined_df, p))])

\* ----------------------------------------------------------------------- C9
\* the day a Date text of the export names
DayOfText(c) == IF c.k = "text" THEN [k |-> "ts", y |-> c.y, m |-> c.m, d |-> c.d] ELSE NaT

\* the amount in thousandths a formatted cell shows
ShownAmount(c) == IF c.k = "empty" THEN 0 ELSE 10 * c.n

\* the step that prepares the editor keeps every row and its values
C9_PrepareStep ==
  pc = "prepare" /\ pc' = "editor" =>
    /\ Len(combined_df') = Len(combined_df)
    /\ \A r \in 1..Len(combined_df) :
         /\ combined_df'[r].Date = combined_df[r].Date
         /\ combined_df'[r].Payee = combined_df[r].Payee
         /\ combined_df'[r].Memo = combined_df[r].Memo
         /\ ShownAmount(combined_df'[r].Inflow) = combined_df[r].Inflow.n
         /\ ShownAmount(combined_df'[r].Outflow) = combined_df[r].Outflow.n

\* the export holds the rows that were not ticked, in order, unchanged
C9_ExportStep ==
  pc = "editor" /\ pc' = "done" =>
    LET n == Len(combined_df)
        ticked == {r \in 1..Len(edited_df') : edited_df'[r].Remove}
        AtOrBefore(r) == Cardinality({q \in 1..r : q \notin ticked})
    IN  /\ Len(edited_df') = n
        /\ Len(final_df') = n - Cardinality(ticked)
        /\ transaction_count' = n - Cardinality(ticked)
        /\ \A r \in (1..n) \ ticked :
             LET out == final_df'[AtOrBefore(r)]
             IN  /\ DayOfText(out.Date) = combined_df[r].Date
                 /\ out.Payee = combined_df[r].Payee
                 /\ out.Memo = combined_df[r].Memo
                 /\ out.Inflow = combined_df[r].Inflow
                 /\ out.Outflow = combined_df[r].Outflow

\* C9: the exported dataset is exactly the rows of the merged dataset that
\* were not marked, in the same relative order and with Date, Payee, Memo,
\* Inflow and Outflow unchanged, and the row count of the file name is the
\* number of rows that remain.
C9_ExclusionExact == [][C9_PrepareStep /\ C9_ExportStep]_vars

\* an export from which some rows were excluded and in which several remain
C9_Witness ==
  /\ pc = "done"
  /\ \E r \in 1..Len(edited_df) : edited_df[r].Remove
  /\ \E a, b \in 1..Len(edited_df) :
       a < b /\ ~edited_df[a].Remove /\ ~edited_df[b].Remove /\ edited_df[a] # edited_df[b]
  /\ transaction_count = Len(final_df)
  /\ transaction_count >= 2

\* ---------------------------------------------------------------------- C10
\* the dataset as it stands: the merged one, or the export once rows have
\* been excluded
CurrentDataset == IF pc = "done" THEN final_df ELSE combined_df

\* C10: at every step after the merge the four aggregators, applied to the
\* dataset as it then stands, succeed and give the values of the dashboard.
C10_ReportRederivable ==
  pc \in {"daterange", "prepare", "editor", "done"} => report \in Reports(CurrentDataset)

=============================================================================
